---- MODULE Spec2Model ----
(***************************************************************************)
(* Model of scripts/generate-api-docs.py: the API-reference stub generator *)
(* (get_public_members, generate_module_doc, discover_modules,             *)
(* generate_api_index, main).                                              *)
(*                                                                         *)
(* Python strings are sequences of character codes, so that str.startswith,*)
(* the code-point order used by sorted() and len() are computed and not    *)
(* assumed.  A text file is the sequence of its newline-terminated lines.  *)
(* The output directory holds regular files (name -> content) and,        *)
(* possibly, the "generated" subdirectory.                                 *)
(***************************************************************************)
EXTENDS Integers, Sequences, FiniteSets, TLC

VARIABLES
    pyenv,        \* the Python environment: the package on disk and what importing each module gives
    args,         \* argparse result of the current run: [package, clean]
    pc,           \* position of the process in main()
    exitcode,     \* exit status of the last finished process; Running while one runs
    outExists,    \* args.output.exists()
    files,        \* regular files directly in args.output: name -> lines
    generatedDir, \* (args.output / "generated").exists()
    modules,      \* main's `modules`: the discovered set, as the sequence in which the set iterates
    idx,          \* position of the for loop of main over sorted(modules)
    module,       \* generate_module_doc's local `module` (the imported module object)
    members,      \* generate_module_doc's locals functions, classes, submodules
    log,          \* lines printed by the current run, in order (the traceback of an uncaught exception included)
    removed,      \* names the cleanup step of the current run removed (its "Removed:" lines, order dropped)
    written,      \* names the current run opened for writing, in order
    prev          \* what the previous run produced, when it completed: name -> lines

vars == <<pyenv, args, pc, exitcode, outExists, files, generatedDir, modules,
          idx, module, members, log, removed, written, prev>>

---------------------------------------------------------------------------
(* String literals of the source, as character codes.                      *)

S_rst == <<46, 114, 115, 116>>   \* ".rst"
S_init_py == <<95, 95, 105, 110, 105, 116, 95, 95, 46, 112, 121>>   \* "__init__.py"
S_index_rst == <<105, 110, 100, 101, 120, 46, 114, 115, 116>>   \* "index.rst"
S_api_rst == <<97, 112, 105, 46, 114, 115, 116>>   \* "api.rst"
S_underscore == <<95>>   \* "_"
S_dot == <<46>>   \* "."
S_automodule == <<46, 46, 32, 97, 117, 116, 111, 109, 111, 100, 117, 108, 101, 58, 58, 32>>   \* ".. automodule:: "
S_Functions == <<70, 117, 110, 99, 116, 105, 111, 110, 115>>   \* "Functions"
S_Classes == <<67, 108, 97, 115, 115, 101, 115>>   \* "Classes"
S_Submodules == <<83, 117, 98, 109, 111, 100, 117, 108, 101, 115>>   \* "Submodules"
S_autosummary == <<46, 46, 32, 97, 117, 116, 111, 115, 117, 109, 109, 97, 114, 121, 58, 58>>   \* ".. autosummary::"
S_toctree_generated == <<32, 32, 32, 58, 116, 111, 99, 116, 114, 101, 101, 58, 32, 103, 101, 110, 101, 114, 97, 116, 101, 100, 47>>   \* "   :toctree: generated/"
S_template == <<32, 32, 32, 58, 116, 101, 109, 112, 108, 97, 116, 101, 58, 32, 99, 108, 97, 115, 115, 46, 114, 115, 116>>   \* "   :template: class.rst"
S_recursive == <<32, 32, 32, 58, 114, 101, 99, 117, 114, 115, 105, 118, 101, 58>>   \* "   :recursive:"
S_indent == <<32, 32, 32>>   \* "   "
S_API_Reference == <<65, 80, 73, 32, 82, 101, 102, 101, 114, 101, 110, 99, 101>>   \* "API Reference"
S_this_page == <<84, 104, 105, 115, 32, 112, 97, 103, 101, 32, 99, 111, 110, 116, 97, 105, 110, 115, 32, 97, 117, 116, 111, 45, 103, 101, 110, 101, 114, 97, 116, 101, 100, 32, 65, 80, 73, 32, 100, 111, 99, 117, 109, 101, 110, 116, 97, 116, 105, 111, 110, 32, 102, 111, 114, 32>>   \* "This page contains auto-generated API documentation for "
S_toctree == <<46, 46, 32, 116, 111, 99, 116, 114, 101, 101, 58, 58>>   \* ".. toctree::"
S_maxdepth == <<32, 32, 32, 58, 109, 97, 120, 100, 101, 112, 116, 104, 58, 32, 50>>   \* "   :maxdepth: 2"

(* Names of the input universe.                                            *)
S_a == <<97>>   \* "a"
S_api == <<97, 112, 105>>   \* "api"
S_index == <<105, 110, 100, 101, 120>>   \* "index"
S_b == <<98>>   \* "b"
S_s == <<115>>   \* "s"
S_x == <<120>>   \* "x"
S_os == <<111, 115>>   \* "os"
S_b_py == <<98, 46, 112, 121>>   \* "b.py"
S_c_py == <<95, 99, 46, 112, 121>>   \* "_c.py"
S_d == <<95, 100>>   \* "_d"
S_x_py == <<120, 46, 112, 121>>   \* "x.py"
S_main_py == <<95, 95, 109, 97, 105, 110, 95, 95, 46, 112, 121>>   \* "__main__.py"
S_old_rst == <<111, 108, 100, 46, 114, 115, 116>>   \* "old.rst"
S_notes_txt == <<110, 111, 116, 101, 115, 46, 116, 120, 116>>   \* "notes.txt"
S_f == <<102>>   \* "f"
S_C == <<67>>   \* "C"
S_p == <<95, 112>>   \* "_p"
S_Z == <<90>>   \* "Z"
S_stale == <<115, 116, 97, 108, 101>>   \* "stale"

---------------------------------------------------------------------------
(* Python built-ins the code uses.                                         *)

\* str.startswith
startswith(s, p) == Len(p) <= Len(s) /\ SubSeq(s, 1, Len(p)) = p

\* str.endswith (what Path.glob("*.rst") matches on a name)
endswith(s, p) == Len(p) <= Len(s) /\ SubSeq(s, Len(s) - Len(p) + 1, Len(s)) = p

\* s < t for Python strings: lexicographic by code point
StrLess(s, t) ==
    \E i \in 1..(Len(s) + 1) :
        /\ \A j \in 1..(i - 1) : j <= Len(t) /\ s[j] = t[j]
        /\ \/ i = Len(s) + 1 /\ i <= Len(t)
           \/ i <= Len(s) /\ i <= Len(t) /\ s[i] < t[i]

\* one insertion of the (stable) sort: x goes after every element not greater than it
RECURSIVE InsertSorted(_, _)
InsertSorted(x, xs) ==
    IF xs = <<>> THEN <<x>>
    ELSE IF StrLess(x, Head(xs)) THEN <<x>> \o xs
    ELSE <<Head(xs)>> \o InsertSorted(x, Tail(xs))

\* sorted(xs) on strings
RECURSIVE sorted(_)
sorted(xs) ==
    IF xs = <<>> THEN <<>>
    ELSE InsertSorted(xs[Len(xs)], sorted(SubSeq(xs, 1, Len(xs) - 1)))

\* c * n
Repeat(c, n) == [i \in 1..n |-> c]

Range(xs) == {xs[i] : i \in 1..Len(xs)}

IsSorted(xs) == \A i \in 1..(Len(xs) - 1) : ~StrLess(xs[i + 1], xs[i])

NoDuplicates(xs) == \A i, j \in 1..Len(xs) : xs[i] = xs[j] => i = j

\* the sequences that enumerate a set once each: the orders in which a set can iterate
Enumerations(S) ==
    {xs \in [1..Cardinality(S) -> S] : Range(xs) = S}

---------------------------------------------------------------------------
(* Module objects.  A module object is [name, attrs]: its __name__ and its *)
(* attribute table.  An attribute is what getattr(module, name) gives:     *)
(*   get     "ok", or the exception getattr raises                         *)
(*           ("AttributeError", "ImportError", or one of Exceptions, e.g.  *)
(*           from a module __getattr__)                                    *)
(*   kind    "function" | "class" | "module" | "other" (inspect.is...)     *)
(*   hasmod  hasattr(obj, "__module__")                                    *)
(*   defmod  obj.__module__: a string, or None                             *)
(*   objname obj.__name__ (read for module objects only)                   *)

\* the value None, which is no string: a sequence that holds no code point
None == <<0 - 1>>

Attr(get, kind, hasmod, defmod, objname) ==
    [get |-> get, kind |-> kind, hasmod |-> hasmod, defmod |-> defmod, objname |-> objname]

FunctionIn(m) == Attr("ok", "function", TRUE, m, <<>>)
ClassIn(m) == Attr("ok", "class", TRUE, m, <<>>)
ModuleNamed(m) == Attr("ok", "module", FALSE, <<>>, m)
PlainValue == Attr("ok", "other", FALSE, <<>>, <<>>)
InstanceOfClassIn(m) == Attr("ok", "other", TRUE, m, <<>>)
Raising(exc) == Attr(exc, "other", FALSE, <<>>, <<>>)
\* a bound built-in method (random.random, [].append): it has __module__, which is None
BuiltinMethod == Attr("ok", "other", TRUE, None, <<>>)

\* the elements of a set of strings in increasing order
RECURSIVE SortedSeqOf(_)
SortedSeqOf(S) ==
    IF S = {} THEN <<>>
    ELSE LET least == CHOOSE x \in S : \A y \in S : ~StrLess(y, x)
         IN  <<least>> \o SortedSeqOf(S \ {least})

\* dir(module): the attribute names, sorted
dir(m) == SortedSeqOf(DOMAIN m.attrs)

\* line 45: name.startswith("_")
IsPrivateMut(name) == FALSE
IsPrivate(name) == startswith(name, S_underscore)

\* lines 48-51: the exceptions of getattr the loop absorbs
AbsorbedGetattrErrors == {"AttributeError", "ImportError"}

\* lines 54-57: hasattr(obj, "__module__") and not obj.__module__.startswith(module.__name__)
\* gives "True" or "False", or raises: None has no attribute startswith
DefinedElsewhere(m, a) ==
    IF ~a.hasmod THEN "False"
    ELSE IF a.defmod = None THEN "AttributeError"
    ELSE IF startswith(a.defmod, m.name) THEN "False"
    ELSE "True"

\* line 63: inspect.ismodule(obj) and obj.__name__.startswith(module.__name__)
IsOwnSubmodule(m, a) == a.kind = "module" /\ startswith(a.objname, m.name)

NoMembers == [raised |-> "none", functions |-> <<>>, classes |-> <<>>, submodules |-> <<>>]

\* lines 59-64: the if/elif chain that appends the name to one list
Classify(m, name, a, acc) ==
    IF a.kind = "function" THEN [acc EXCEPT !.functions = Append(@, name)]
    ELSE IF a.kind = "class" THEN [acc EXCEPT !.classes = Append(@, name)]
    ELSE IF IsOwnSubmodule(m, a) THEN [acc EXCEPT !.submodules = Append(@, name)]
    ELSE acc

\* lines 44-64: the loop over dir(module), from the names still to visit;
\* an exception that is not absorbed leaves the function (raised # "none"): one of
\* getattr that the try of lines 48-51 does not name, or one of the test of lines
\* 54-57, which is outside that try
RECURSIVE MembersLoop(_, _, _)
MembersLoop(m, names, acc) ==
    IF names = <<>> THEN acc
    ELSE LET name == Head(names)
             a == m.attrs[name]
         IN  IF IsPrivate(name) THEN MembersLoop(m, Tail(names), acc)
             ELSE IF a.get \in AbsorbedGetattrErrors THEN MembersLoop(m, Tail(names), acc)
             ELSE IF a.get # "ok" THEN [NoMembers EXCEPT !.raised = a.get]
             ELSE IF DefinedElsewhere(m, a) = "True" THEN MembersLoop(m, Tail(names), acc)
             ELSE IF DefinedElsewhere(m, a) # "False"
                  THEN [NoMembers EXCEPT !.raised = DefinedElsewhere(m, a)]
             ELSE MembersLoop(m, Tail(names), Classify(m, name, a, acc))

\* line 66: the three lists are returned sorted
get_public_members(m) ==
    LET r == MembersLoop(m, dir(m), NoMembers)
    IN  IF r.raised # "none" THEN r
        ELSE [raised |-> "none",
              functions |-> sorted(r.functions),
              classes |-> sorted(r.classes),
              submodules |-> sorted(r.submodules)]

NoModule == [name |-> <<>>, attrs |-> <<>>]

---------------------------------------------------------------------------
(* generate_module_doc and generate_api_index: file names and contents.    *)

\* line 92: not (functions or classes or submodules)
NothingToDocumentMut(mem) == FALSE
NothingToDocument(mem) ==
    mem.functions = <<>> /\ mem.classes = <<>> /\ mem.submodules = <<>>

\* line 97: output_dir / f"{module_name}.rst"
ModuleFileNameMut(module_name) == SubSeq(module_name, 1, 1) \o S_rst
ModuleFileName(module_name) == module_name \o S_rst

\* lines 115-117, 126-128, 137-139: one indented line per name, then an empty line
MemberLines(names) == [i \in 1..Len(names) |-> S_indent \o names[i]] \o << <<>> >>

\* lines 110-117
FunctionsSectionMut(functions) ==
    <<S_Functions, Repeat(45, 9), <<>>, S_autosummary, S_toctree_generated, <<>>>>
    \o MemberLines(functions)
FunctionsSection(functions) ==
    IF functions = <<>> THEN <<>>
    ELSE <<S_Functions, Repeat(45, 9), <<>>, S_autosummary, S_toctree_generated, <<>>>>
         \o MemberLines(functions)

\* lines 120-128
ClassesSection(classes) ==
    IF classes = <<>> THEN <<>>
    ELSE <<S_Classes, Repeat(45, 7), <<>>, S_autosummary, S_toctree_generated, S_template, <<>>>>
         \o MemberLines(classes)

\* lines 131-139
SubmodulesSection(submodules) ==
    IF submodules = <<>> THEN <<>>
    ELSE <<S_Submodules, Repeat(45, 10), <<>>, S_autosummary, S_toctree_generated, S_recursive, <<>>>>
         \o MemberLines(submodules)

\* lines 100-139: the lines written to the per-module file
ModuleDocLines(module_name, mem) ==
    <<module_name, Repeat(61, Len(module_name)), <<>>, S_automodule \o module_name, <<>>>>
    \o FunctionsSection(mem.functions)
    \o ClassesSection(mem.classes)
    \o SubmodulesSection(mem.submodules)

\* line 205: output_dir / "api.rst"
IndexFileName == S_api_rst

\* line 219: the order in which the index lists the modules
IndexOrderMut(mods) == mods
IndexOrder(mods) == sorted(mods)

\* lines 207-220: the lines written to the index file
IndexLines(package_name, mods) ==
    <<S_API_Reference, Repeat(61, Len(S_API_Reference)), <<>>,
      S_this_page \o package_name \o S_dot, <<>>,
      S_toctree, S_maxdepth, <<>>>>
    \o [i \in 1..Len(mods) |-> S_indent \o IndexOrder(mods)[i]]

\* open(filename, "w") ... : the file is created or replaced
WriteFile(fs, name, lines) ==
    [n \in (DOMAIN fs) \cup {name} |-> IF n = name THEN lines ELSE fs[n]]

\* item.unlink() for every item of a set
Unlink(fs, names) == [n \in (DOMAIN fs) \ names |-> fs[n]]

---------------------------------------------------------------------------
(* discover_modules.  The package on disk is the set of paths of the .py   *)
(* files rglob finds, each relative to package_path.parent (a sequence of  *)
(* components whose first is the package directory).                       *)

\* ".".join(parts)
RECURSIVE join(_)
join(parts) ==
    IF parts = <<>> THEN <<>>
    ELSE IF Len(parts) = 1 THEN parts[1]
    ELSE parts[1] \o S_dot \o join(Tail(parts))

\* Path.stem: the name without its last suffix (a leading dot starts no suffix)
stem(name) ==
    LET dots == {i \in 2..Len(name) : name[i] = 46}
    IN  IF dots = {} THEN name
        ELSE SubSeq(name, 1, (CHOOSE i \in dots : \A j \in dots : j <= i) - 1)

\* line 172: py_file.name.startswith("_") and py_file.name != "__init__.py"
SkippedFileMut(name) == FALSE
SkippedFile(name) == startswith(name, S_underscore) /\ name # S_init_py

\* lines 176-182: the module name of one file
ModuleNameOf(path) ==
    LET name == path[Len(path)]
        dirs == SubSeq(path, 1, Len(path) - 1)
    IN  join(IF name # S_init_py THEN Append(dirs, stem(name)) ELSE dirs)

\* lines 164-187: the set discover_modules returns once the package is imported
discover_modules(env, package_name) ==
    {package_name} \cup
    (IF env.hasPath
     THEN {ModuleNameOf(path) : path \in {q \in env.pyfiles : ~SkippedFile(q[Len(q)])}} \ {<<>>}
     ELSE {})

---------------------------------------------------------------------------
(* The input universe: packages, what importing their modules gives, and   *)
(* the output directory before the first run.                              *)

PackageNames == {S_a, S_api, S_index}

\* sys.exit(code) in the imported code: the SystemExit raised, and its code
SystemExitCode == ("SystemExit(0)" :> 0) @@ ("SystemExit(3)" :> 3)

\* the exceptions imported code raises: "ImportError"; "Exception" for any other
\* subclass of Exception (a SyntaxError, a NameError at import time, ...);
\* KeyboardInterrupt; SystemExit with its code
Exceptions == {"ImportError", "Exception", "KeyboardInterrupt"} \cup DOMAIN SystemExitCode

\* what importlib.import_module(name) gives: exc = "none" and the module object,
\* or the exception raised
Imported(m) == [exc |-> "none", module |-> m]
ImportFails(exc) == [exc |-> exc, module |-> NoModule]

\* a module with public members of the three kinds
FullModule(name) ==
    [name |-> name,
     attrs |-> (S_f :> FunctionIn(name)) @@ (S_C :> ClassIn(name)) @@
               (S_p :> FunctionIn(name)) @@ (S_x :> PlainValue) @@
               (S_s :> ModuleNamed(name \o S_dot \o S_s)) @@
               (S_os :> ModuleNamed(S_os))]

\* a module with no documentable member
EmptyModule(name) ==
    [name |-> name, attrs |-> (S_p :> FunctionIn(name)) @@ (S_x :> PlainValue)]

\* a module one of whose attributes raises on access
BrokenAttrModule(name) ==
    [name |-> name, attrs |-> (S_f :> FunctionIn(name)) @@ (S_x :> Raising("Exception"))]

\* a module one of whose attributes calls sys.exit(0) on access
ExitingAttrModule(name) ==
    [name |-> name, attrs |-> (S_f :> FunctionIn(name)) @@ (S_x :> Raising("SystemExit(0)"))]

\* a module that holds a bound built-in method (x = [].append)
BuiltinAttrModule(name) ==
    [name |-> name, attrs |-> (S_f :> FunctionIn(name)) @@ (S_x :> BuiltinMethod)]

ImportOutcomes(name) ==
    {ImportFails(e) : e \in Exceptions} \cup
    {Imported(FullModule(name)), Imported(EmptyModule(name)),
     Imported(BrokenAttrModule(name)), Imported(ExitingAttrModule(name)),
     Imported(BuiltinAttrModule(name))}

\* processing a module with this outcome ends the run: main reads no later module
EndsRun(out) ==
    IF out.exc = "none" THEN get_public_members(out.module).raised # "none"
    ELSE out.exc # "ImportError"

\* the package's files on disk: a plain module (no __path__), or a package directory
PackageTrees(p) ==
    {[hasPath |-> FALSE, pyfiles |-> {}],
     [hasPath |-> TRUE, pyfiles |-> {<<p, S_init_py>>, <<p, S_b_py>>, <<p, S_c_py>>}],
     [hasPath |-> TRUE, pyfiles |-> {<<p, S_init_py>>, <<p, S_b_py>>, <<p, S_c_py>>,
                                     <<p, S_s, S_init_py>>}]}

\* the environments in which the package imports: every discovered module has an outcome
\* (the package's own is a success: sys.modules holds it once discover_modules imported it);
\* a module main never reaches, because an earlier one ends the run, is never imported:
\* one outcome stands for all it could have
ImportableEnv(env) ==
    \E p \in PackageNames :
      \E t \in PackageTrees(p) :
        \E imp \in [discover_modules(t, p) ->
                      UNION {ImportOutcomes(m) : m \in discover_modules(t, p)}] :
          /\ \A m \in DOMAIN imp : imp[m] \in ImportOutcomes(m)
          /\ imp[p].exc = "none"
          /\ \A m \in DOMAIN imp :
               (\E e \in DOMAIN imp : StrLess(e, m) /\ EndsRun(imp[e])) =>
                   imp[m] = ImportFails("ImportError")
          /\ env = [package |-> p, hasPath |-> t.hasPath, pyfiles |-> t.pyfiles,
                    importOf |-> imp]

\* the environments in which importing the package itself raises
BrokenEnv(env) ==
    \E p \in PackageNames :
      \E e \in Exceptions :
        env = [package |-> p, hasPath |-> FALSE, pyfiles |-> {},
               importOf |-> (p :> ImportFails(e))]

StaleLines == <<S_stale>>

\* the output directory before the first run: absent, or holding some of these files
InitialDirs ==
    {[exists |-> FALSE, files |-> <<>>, generated |-> FALSE],
     [exists |-> TRUE, files |-> <<>>, generated |-> FALSE],
     [exists |-> TRUE, files |-> (S_index_rst :> StaleLines), generated |-> FALSE],
     [exists |-> TRUE, files |-> (S_old_rst :> StaleLines) @@ (S_notes_txt :> StaleLines),
      generated |-> TRUE],
     [exists |-> TRUE,
      files |-> (S_index_rst :> StaleLines) @@ (S_api_rst :> StaleLines) @@
                (S_old_rst :> StaleLines) @@ (S_notes_txt :> StaleLines),
      generated |-> TRUE]}

---------------------------------------------------------------------------
(* main: one action per step of the process.                               *)

NotExited == 0 - 1

Line(msg, arg) == [msg |-> msg, arg |-> arg]

NoPrev == [completed |-> FALSE, produced |-> <<>>]

\* lines 279-280: main ran to its end: the process ended after the summary
Completed == pc = "exit" /\ exitcode = 0 /\ log # <<>> /\ log[Len(log)].msg = "Done"

Init ==
    /\ (ImportableEnv(pyenv) \/ BrokenEnv(pyenv))
    /\ \E d \in InitialDirs :
         /\ outExists = d.exists
         /\ files = d.files
         /\ generatedDir = d.generated
    /\ args = [package |-> pyenv.package, clean |-> FALSE]
    /\ pc = "idle"
    /\ exitcode = NotExited
    /\ modules = <<>>
    /\ idx = 0
    /\ module = NoModule
    /\ members = NoMembers
    /\ log = <<>>
    /\ removed = {}
    /\ written = <<>>
    /\ prev = NoPrev

\* what a finished run produced: the files it wrote, as it left them
Produced == [n \in Range(written) |-> files[n]]

\* lines 227-249: a new process starts and parses its arguments
main_parse_args ==
    /\ pc \in {"idle", "exit"}
    /\ \E clean \in BOOLEAN : args' = [package |-> pyenv.package, clean |-> clean]
    /\ prev' = IF Completed
               THEN [completed |-> TRUE, produced |-> Produced]
               ELSE NoPrev
    /\ pc' = "cleanup"
    /\ exitcode' = NotExited
    /\ modules' = <<>>
    /\ idx' = 0
    /\ module' = NoModule
    /\ members' = NoMembers
    /\ log' = <<>>
    /\ removed' = {}
    /\ written' = <<>>
    /\ UNCHANGED <<pyenv, outExists, files, generatedDir>>

\* line 256: the name the cleanup keeps
KeptByCleanMut(name) == name = IndexFileName
KeptByClean(name) == name = S_index_rst

\* lines 255-257: the files the cleanup unlinks
CleanTargetsMut(fs) == {}
CleanTargets(fs) == {n \in DOMAIN fs : endswith(n, S_rst) /\ ~KeptByClean(n)}

\* lines 252-263
main_clean ==
    /\ pc = "cleanup"
    /\ \/ /\ args.clean /\ outExists
          /\ files' = Unlink(files, CleanTargets(files))
          /\ generatedDir' = FALSE
          /\ removed' = CleanTargets(files) \cup (IF generatedDir THEN {<<"generated">>} ELSE {})
       \/ /\ ~(args.clean /\ outExists)
          /\ UNCHANGED <<files, generatedDir, removed>>
    /\ pc' = "mkdir"
    /\ UNCHANGED <<pyenv, args, exitcode, outExists, modules, idx, module, members,
                   log, written, prev>>

\* line 266
main_mkdirMut ==
    /\ pc = "mkdir"
    /\ pc' = "discover"
    /\ UNCHANGED <<pyenv, args, exitcode, outExists, files, generatedDir, modules, idx,
                   module, members, log, removed, written, prev>>
main_mkdir ==
    /\ pc = "mkdir"
    /\ outExists' = TRUE
    /\ pc' = "discover"
    /\ UNCHANGED <<pyenv, args, exitcode, files, generatedDir, modules, idx, module,
                   members, log, removed, written, prev>>

\* the status of a process that died of SIGINT, as the parent process reads it
KilledBySIGINT == 0 - 2

\* an exception nothing catches ends the process: a SystemExit silently, with its code
\* as the status; a KeyboardInterrupt with the traceback and death by SIGINT; any other
\* with the traceback and status 1
Uncaught(exc, lines) ==
    /\ log' = log \o lines \o
              (IF exc \in DOMAIN SystemExitCode THEN <<>> ELSE <<Line("Traceback", <<>>)>>)
    /\ exitcode' = IF exc \in DOMAIN SystemExitCode THEN SystemExitCode[exc]
                   ELSE IF exc = "KeyboardInterrupt" THEN KilledBySIGINT
                   ELSE 1
    /\ pc' = "exit"

\* lines 160-162: the except clause of discover_modules ends the process
AbortsOnPackageImportError(exc) == exc = "ImportError"

\* lines 268-270 with discover_modules (lines 158-187)
main_discover ==
    /\ pc = "discover"
    /\ LET out == pyenv.importOf[args.package]
           hello == <<Line("Discovering", args.package)>>
       IN  \/ /\ out.exc = "ImportError"
              /\ AbortsOnPackageImportError(out.exc)
              /\ log' = log \o hello \o <<Line("Error", args.package)>>
              /\ exitcode' = 1
              /\ pc' = "exit"
              /\ UNCHANGED <<modules, idx>>
           \/ /\ out.exc \notin {"none", "ImportError"}
              /\ Uncaught(out.exc, hello)
              /\ UNCHANGED <<modules, idx>>
           \/ /\ out.exc = "none" \/ (out.exc = "ImportError" /\ ~AbortsOnPackageImportError(out.exc))
              /\ modules' \in Enumerations(discover_modules(pyenv, args.package))
              /\ log' = log \o hello \o <<Line("Found", <<Len(modules')>>)>>
              /\ idx' = 1
              /\ pc' = "generate"
              /\ UNCHANGED exitcode
    /\ UNCHANGED <<pyenv, args, outExists, files, generatedDir, module, members,
                   removed, written, prev>>

\* lines 273-274: one iteration of the loop, generate_module_doc (lines 84-141)
main_generate ==
    /\ pc = "generate"
    /\ idx <= Len(modules)
    /\ LET module_name == sorted(modules)[idx]
           out == pyenv.importOf[module_name]
           mem == get_public_members(out.module)
       IN  \/ /\ out.exc = "ImportError"
              /\ log' = Append(log, Line("Warning", module_name))
              /\ idx' = idx + 1
              /\ UNCHANGED <<pc, exitcode, module, members, outExists, files, written>>
           \/ /\ out.exc \notin {"none", "ImportError"}
              /\ Uncaught(out.exc, <<>>)
              /\ UNCHANGED <<idx, module, members, outExists, files, written>>
           \/ /\ out.exc = "none"
              /\ mem.raised # "none"
              /\ module' = out.module
              /\ Uncaught(mem.raised, <<>>)
              /\ UNCHANGED <<idx, members, outExists, files, written>>
           \/ /\ out.exc = "none"
              /\ mem.raised = "none"
              /\ NothingToDocument(mem)
              /\ module' = out.module
              /\ members' = mem
              /\ log' = Append(log, Line("Skipping", module_name))
              /\ idx' = idx + 1
              /\ UNCHANGED <<pc, exitcode, outExists, files, written>>
           \/ /\ out.exc = "none"
              /\ mem.raised = "none"
              /\ ~NothingToDocument(mem)
              /\ module' = out.module
              /\ members' = mem
              /\ outExists' = TRUE
              /\ files' = WriteFile(files, ModuleFileName(module_name),
                                    ModuleDocLines(module_name, mem))
              /\ written' = Append(written, ModuleFileName(module_name))
              /\ log' = Append(log, Line("Generated", ModuleFileName(module_name)))
              /\ idx' = idx + 1
              /\ UNCHANGED <<pc, exitcode>>
    /\ UNCHANGED <<pyenv, args, generatedDir, modules, removed, prev>>

\* lines 276-280: generate_api_index (lines 205-222), the summary, and the normal exit
main_index ==
    /\ pc = "generate"
    /\ idx > Len(modules)
    /\ files' = WriteFile(files, IndexFileName, IndexLines(args.package, modules))
    /\ written' = Append(written, IndexFileName)
    /\ log' = log \o <<Line("GeneratedIndex", IndexFileName), Line("Done", <<>>)>>
    /\ exitcode' = 0
    /\ pc' = "exit"
    /\ UNCHANGED <<pyenv, args, outExists, generatedDir, modules, idx, module, members,
                   removed, prev>>

Next ==
    \/ main_parse_args
    \/ main_clean
    \/ main_mkdir
    \/ main_discover
    \/ main_generate
    \/ main_index

Spec == Init /\ [][Next]_vars

---------------------------------------------------------------------------
(* get_public_members on its own: the module object is drawn from a        *)
(* bounded universe and the function is applied to it once.                *)

\* how many attribute names a module of the universe may hold
MaxAttrs == 3

AttrNames == <<S_f, S_p, S_C, S_Z, S_x>>

MemberModuleNames == {S_a, S_a \o S_dot \o S_b}

\* defining modules an attribute may record: the module itself, a module inside it,
\* a module whose name merely begins with the same characters, and an unrelated one
DefiningModules(name) == {name, name \o S_dot \o S_s, name \o S_b, S_os}

AttrValues(name) ==
    {Raising("AttributeError"), Raising("ImportError"), Raising("Exception"),
     Raising("SystemExit(0)"), PlainValue, InstanceOfClassIn(name), BuiltinMethod}
    \cup {FunctionIn(d) : d \in DefiningModules(name)}
    \cup {ClassIn(d) : d \in DefiningModules(name)}
    \cup {ModuleNamed(d) : d \in DefiningModules(name)}

NoEnv == [package |-> <<>>, hasPath |-> FALSE, pyfiles |-> {}, importOf |-> <<>>]

InitMembers ==
    /\ \E name \in MemberModuleNames :
         \E dom \in SUBSET {AttrNames[i] : i \in 1..MaxAttrs} :
           \E attrs \in [dom -> AttrValues(name)] :
             module = [name |-> name, attrs |-> attrs]
    /\ members = NoMembers
    /\ pc = "call"
    /\ pyenv = NoEnv
    /\ args = [package |-> <<>>, clean |-> FALSE]
    /\ exitcode = NotExited
    /\ outExists = FALSE
    /\ files = <<>>
    /\ generatedDir = FALSE
    /\ modules = <<>>
    /\ idx = 0
    /\ log = <<>>
    /\ removed = {}
    /\ written = <<>>
    /\ prev = NoPrev

\* line 90: functions, classes, submodules = get_public_members(module)
call_get_public_members ==
    /\ pc = "call"
    /\ members' = get_public_members(module)
    /\ pc' = IF members'.raised = "none" THEN "return" ELSE "raise"
    /\ UNCHANGED <<pyenv, args, exitcode, outExists, files, generatedDir, modules,
                   idx, module, log, removed, written, prev>>

NextMembers == call_get_public_members

SpecMembers == InitMembers /\ [][NextMembers]_vars

---------------------------------------------------------------------------
(* Properties.                                                             *)

\* the discovered set, computed from the package on disk
Discovered == discover_modules(pyenv, pyenv.package)

\* a module "belongs to" m when it is m or a module inside m
BelongsTo(d, m) == d = m \/ startswith(d, m \o S_dot)

\* mod has a function, class or submodule the classifier documents
HasDocumentableMember(mod) ==
    \E n \in DOMAIN mod.attrs :
        LET a == mod.attrs[n]
        IN  /\ n[1] # 95
            /\ a.get = "ok"
            /\ \/ a.kind \in {"function", "class"} /\ startswith(a.defmod, mod.name)
               \/ a.kind = "module" /\ startswith(a.objname, mod.name)

\* the discovered modules that import and have a documentable member
Documentable ==
    {m \in Discovered :
        pyenv.importOf[m].exc = "none" /\ HasDocumentableMember(pyenv.importOf[m].module)}

\* the arguments of the lines of one kind the run printed, in order
RECURSIVE Printed(_, _)
Printed(lines, msg) ==
    IF lines = <<>> THEN <<>>
    ELSE (IF Head(lines).msg = msg THEN <<Head(lines).arg>> ELSE <<>>)
         \o Printed(Tail(lines), msg)

\* C1: a completed run writes exactly one per-module file <module>.rst for each
\* discovered module that imports and has a documentable member, and none for any
\* other module: the per-module files written are exactly those modules' files,
\* each written once, followed by the one write of the index.
C1_PerModuleFilesWritten ==
    Completed =>
        LET perModule == SubSeq(written, 1, Len(written) - 1)
        IN  /\ Len(written) >= 1
            /\ NoDuplicates(perModule)
            /\ Range(perModule) = {m \o S_rst : m \in Documentable}
            /\ Printed(log, "Generated") = perModule
            /\ \A m \in Documentable :
                 m \o S_rst # S_api_rst =>
                    /\ m \o S_rst \in DOMAIN files
                    /\ files[m \o S_rst][1] = m

\* C1 witness: a completed run that wrote two per-module files and left a
\* discovered module without one
C1_Witness ==
    /\ Completed
    /\ Len(written) = 3
    /\ Cardinality(Discovered) = 3

\* every module that imports classifies without an exception
ClassifiersReturn ==
    \A m \in Discovered :
        pyenv.importOf[m].exc = "none" =>
            get_public_members(pyenv.importOf[m].module).raised = "none"

\* C2: when the package itself imports, the failure to import a discovered module is
\* never fatal: the run ends with status 0, has printed a warning for each module
\* whose import fails, has processed every other module and has written the index.
C2_ModuleImportFailureNeverFatal ==
    (pc = "exit" /\ pyenv.importOf[pyenv.package].exc = "none" /\ ClassifiersReturn) =>
        /\ exitcode = 0
        /\ \A m \in Discovered :
             IF pyenv.importOf[m].exc # "none"
             THEN m \in Range(Printed(log, "Warning"))
             ELSE \/ m \in Range(Printed(log, "Skipping"))
                  \/ m \o S_rst \in Range(Printed(log, "Generated"))
        /\ Printed(log, "GeneratedIndex") = <<S_api_rst>>

\* C3: if the package cannot be imported the process ends with a non-zero status
\* after printing an error, and the run has written no per-module file and no
\* index file.
C3_PackageImportFailureAborts ==
    (pc = "exit" /\ pyenv.importOf[pyenv.package].exc # "none") =>
        /\ exitcode # 0
        /\ exitcode # NotExited
        /\ log # <<>>
        /\ log[Len(log)].msg \in {"Error", "Traceback"}
        /\ written = <<>>
        /\ Printed(log, "Generated") = <<>>
        /\ Printed(log, "GeneratedIndex") = <<>>
        /\ modules = <<>>

\* the cleanup step acts: --clean was given and the output directory exists
CleanupActs == pc = "cleanup" /\ args.clean /\ outExists

\* C4 as claimed: the cleanup removes every .rst file of the output directory except
\* the index file the index emitter writes (api.rst), which it keeps, removes the
\* generated subdirectory, and removes no other file.
C4_CleanKeepsEmittedIndex ==
    [][CleanupActs =>
          /\ DOMAIN files' = {n \in DOMAIN files : ~endswith(n, S_rst) \/ n = IndexFileName}
          /\ \A n \in DOMAIN files' : files'[n] = files[n]
          /\ ~generatedDir']_vars

\* C4 amended: the cleanup removes every .rst file of the output directory except
\* index.rst, which it keeps unchanged, removes the generated subdirectory, and
\* removes or changes no other file; api.rst, the file the index emitter writes, is
\* not kept: it is removed like every other .rst file.
C4_CleanKeepsIndexRst ==
    [][CleanupActs =>
          /\ DOMAIN files' = {n \in DOMAIN files : ~endswith(n, S_rst) \/ n = S_index_rst}
          /\ \A n \in DOMAIN files' : files'[n] = files[n]
          /\ IndexFileName \notin DOMAIN files'
          /\ ~generatedDir'
          /\ outExists']_vars

\* C4 witness: the cleanup has removed api.rst, old.rst and the generated
\* subdirectory and has left index.rst and notes.txt
C4_Witness ==
    /\ pc = "mkdir"
    /\ args.clean
    /\ {S_api_rst, S_old_rst, <<"generated">>} \subseteq removed
    /\ {S_index_rst, S_notes_txt} \subseteq DOMAIN files

\* C5 as claimed: a run with --clean that follows a completed run on the same package
\* first removes every file the previous run generated except the index (the file
\* the index emitter writes, api.rst), which it keeps, and then, when it ends, has
\* produced the same files (names and contents) as the previous run.
C5_CleanRerunKeepsEmittedIndex ==
    (prev.completed /\ args.clean) =>
        /\ pc \in {"mkdir", "discover"} =>
             \A n \in DOMAIN prev.produced :
                 IF n = IndexFileName THEN n \in DOMAIN files ELSE n \notin DOMAIN files
        /\ pc = "exit" =>
             /\ exitcode = 0
             /\ Produced = prev.produced

\* C5 amended: a run with --clean that follows a completed run on the same package
\* first removes every file the previous run generated, the index api.rst included,
\* except a file named index.rst (the per-module file of a package named index),
\* which it keeps, and then, when it ends, has produced the same files (names and
\* contents) as the previous run.
C5_CleanRerunIdempotent ==
    (prev.completed /\ args.clean) =>
        /\ pc \in {"mkdir", "discover"} =>
             /\ IndexFileName \in DOMAIN prev.produced
             /\ \A n \in DOMAIN prev.produced :
                  IF n = S_index_rst THEN n \in DOMAIN files ELSE n \notin DOMAIN files
        /\ pc = "exit" =>
             /\ exitcode = 0
             /\ Produced = prev.produced

\* C5 witness: a run with --clean has ended after a completed run, having removed
\* and written again two per-module files and the index
C5_Witness ==
    /\ prev.completed
    /\ args.clean
    /\ Completed
    /\ Len(written) = 3
    /\ Range(written) \subseteq removed

\* the module names the index file lists, in the order of its lines
IndexEntries ==
    LET lines == files[IndexFileName]
    IN  [i \in 1..(Len(lines) - 8) |-> SubSeq(lines[i + 8], 4, Len(lines[i + 8]))]

\* C6: after a completed run the index file lists exactly the discovered modules,
\* each once, in lexicographic order, whatever the order of discovery, the modules
\* skipped or not imported included: each entry is a module for which the run
\* printed exactly one of a generated, a skip or a warning line.
C6_IndexListsDiscoveredSorted ==
    Completed =>
        /\ IndexFileName \in DOMAIN files
        /\ Len(files[IndexFileName]) = 8 + Cardinality(Discovered)
        /\ Range(IndexEntries) = Discovered
        /\ NoDuplicates(IndexEntries)
        /\ \A i \in 1..(Len(IndexEntries) - 1) : StrLess(IndexEntries[i], IndexEntries[i + 1])
        /\ \A i \in 1..Len(IndexEntries) :
             files[IndexFileName][i + 8] = S_indent \o IndexEntries[i]
        /\ \A m \in Range(IndexEntries) :
             Cardinality({i \in 1..Len(log) :
                            \/ log[i] = Line("Generated", m \o S_rst)
                            \/ log[i] = Line("Skipping", m)
                            \/ log[i] = Line("Warning", m)}) = 1

\* C6 witness: a completed run whose discovery produced three modules out of
\* lexicographic order, one of them skipped and one not imported
C6_Witness ==
    /\ Completed
    /\ Len(modules) = 3
    /\ ~IsSorted(modules)
    /\ Printed(log, "Skipping") # <<>>
    /\ Printed(log, "Warning") # <<>>

\* generate_module_doc is about to run on a module that imports and whose three
\* classified lists are empty
AtModuleWithoutMembers ==
    /\ pc = "generate"
    /\ idx <= Len(modules)
    /\ pyenv.importOf[sorted(modules)[idx]].exc = "none"
    /\ get_public_members(pyenv.importOf[sorted(modules)[idx]].module) = NoMembers

\* C7: for a module whose three classified lists are empty generate_module_doc
\* prints a skip notice, raises nothing, and writes nothing: no file is created or
\* changed and no directory is created.
C7_EmptyModuleWritesNothing ==
    [][AtModuleWithoutMembers =>
          /\ files' = files
          /\ outExists' = outExists
          /\ generatedDir' = generatedDir
          /\ written' = written
          /\ log' = Append(log, Line("Skipping", sorted(modules)[idx]))
          /\ pc' = "generate"
          /\ exitcode' = NotExited]_vars

\* C7 witness: the module just processed was skipped and the output directory
\* holds no file of its name
C7_Witness ==
    /\ pc = "generate"
    /\ log # <<>>
    /\ log[Len(log)].msg = "Skipping"
    /\ members = NoMembers
    /\ log[Len(log)].arg \o S_rst \notin DOMAIN files

\* the attributes of the classified module that resolve, are public, and are kept by
\* the defining-module filter, of one kind
Qualifying(kind) ==
    {n \in DOMAIN module.attrs :
        /\ ~startswith(n, S_underscore)
        /\ module.attrs[n].get = "ok"
        /\ module.attrs[n].hasmod => startswith(module.attrs[n].defmod, module.name)
        /\ module.attrs[n].kind = kind
        /\ kind = "module" => startswith(module.attrs[n].objname, module.name)}

\* C8: an error raised while resolving one attribute never aborts: the classifier
\* returns, and its lists hold every other qualifying attribute.
C8_ResolutionErrorsNeverAbort ==
    pc # "call" =>
        /\ pc = "return"
        /\ members.raised = "none"
        /\ Range(members.functions) = Qualifying("function")
        /\ Range(members.classes) = Qualifying("class")
        /\ Range(members.submodules) = Qualifying("module")

\* C9: no returned name begins with an underscore; every returned name is an
\* attribute of the module of the kind of the one list it is in (function, class or
\* module); each list is sorted.
C9_PublicClassifiedSorted ==
    pc = "return" =>
        LET all == members.functions \o members.classes \o members.submodules
            kindOf(n) == module.attrs[n].kind
        IN  /\ \A n \in Range(all) :
                 /\ n # <<>> => n[1] # 95
                 /\ n \in DOMAIN module.attrs
                 /\ module.attrs[n].get = "ok"
            /\ \A n \in Range(members.functions) : kindOf(n) = "function"
            /\ \A n \in Range(members.classes) : kindOf(n) = "class"
            /\ \A n \in Range(members.submodules) : kindOf(n) = "module"
            /\ NoDuplicates(all)
            /\ IsSorted(members.functions)
            /\ IsSorted(members.classes)
            /\ IsSorted(members.submodules)

\* C9 witness: two functions were returned from a module that also holds a
\* private function
C9_Witness ==
    /\ pc = "return"
    /\ members.functions = <<S_C, S_f>>
    /\ S_p \in DOMAIN module.attrs
    /\ module.attrs[S_p] = FunctionIn(module.name)

\* C10: a returned function or class is defined in the current module or in a
\* module inside it, and a returned submodule belongs to the current module.
C10_OnlyLocallyDefined ==
    pc = "return" =>
        /\ \A n \in Range(members.functions) \cup Range(members.classes) :
             BelongsTo(module.attrs[n].defmod, module.name)
        /\ \A n \in Range(members.submodules) :
             BelongsTo(module.attrs[n].objname, module.name)

---------------------------------------------------------------------------
(* discover_modules on its own: the package name and the files under the   *)
(* package directory are drawn from a bounded universe and the function is *)
(* applied once.                                                           *)

\* how many of the candidate files the package directory may hold
MaxPyFiles == 5

\* a top-level package, and a package inside a package
DiscoverPackages == {S_a, S_a \o S_dot \o S_s}

\* line 168: the name of the directory package.__path__[0], the last component of
\* the package's dotted name
PackageDir(package_name) ==
    LET dots == {i \in 1..Len(package_name) : package_name[i] = 46}
    IN  IF dots = {} THEN package_name
        ELSE SubSeq(package_name, (CHOOSE i \in dots : \A j \in dots : j <= i) + 1,
                    Len(package_name))

\* the files rglob may find, relative to the package directory
CandidatePyFiles ==
    << <<S_init_py>>, <<S_b_py>>, <<S_c_py>>, <<S_s, S_init_py>>, <<S_s, S_b_py>>,
       <<S_d, S_x_py>>, <<S_main_py>> >>

InitDiscover ==
    /\ \E p \in DiscoverPackages :
         \E hasPath \in BOOLEAN :
           \E found \in SUBSET {CandidatePyFiles[i] : i \in 1..MaxPyFiles} :
             /\ hasPath \/ found = {}
             /\ pyenv = [package |-> p, hasPath |-> hasPath,
                         pyfiles |-> {<<PackageDir(p)>> \o f : f \in found},
                         importOf |-> (p :> Imported(EmptyModule(p)))]
    /\ args = [package |-> pyenv.package, clean |-> FALSE]
    /\ pc = "call"
    /\ exitcode = NotExited
    /\ outExists = FALSE
    /\ files = <<>>
    /\ generatedDir = FALSE
    /\ modules = <<>>
    /\ idx = 0
    /\ module = NoModule
    /\ members = NoMembers
    /\ log = <<>>
    /\ removed = {}
    /\ written = <<>>
    /\ prev = NoPrev

\* line 269: modules = discover_modules(args.package), the package importing
call_discover_modules ==
    /\ pc = "call"
    /\ modules' \in Enumerations(discover_modules(pyenv, args.package))
    /\ pc' = "return"
    /\ UNCHANGED <<pyenv, args, exitcode, outExists, files, generatedDir, idx, module,
                   members, log, removed, written, prev>>

NextDiscover == call_discover_modules

SpecDiscover == InitDiscover /\ [][NextDiscover]_vars

\* the module name a file would have by its directories and its stem
NameByPath(path) ==
    join(Append(SubSeq(path, 1, Len(path) - 1), stem(path[Len(path)])))

\* the returned set is duplicate-free, holds the package name, holds otherwise only
\* names that are the package name, a dot and further components; a file whose name
\* begins with an underscore contributes nothing unless it is an __init__.py, which
\* contributes the module name of its directory
DiscoveredAsClaimed ==
    LET pkg == args.package
        names == Range(modules)
    IN  /\ NoDuplicates(modules)
        /\ pkg \in names
        /\ \A n \in names \ {pkg} :
             startswith(n, pkg \o S_dot) /\ Len(n) > Len(pkg) + 1
        /\ \A f \in pyenv.pyfiles :
             LET name == f[Len(f)]
             IN  /\ (name[1] = 95 /\ name # S_init_py /\ NameByPath(f) \in names) =>
                       \E g \in pyenv.pyfiles \ {f} :
                           /\ g[Len(g)][1] # 95
                           /\ NameByPath(g) = NameByPath(f)
                 /\ name = S_init_py => join(SubSeq(f, 1, Len(f) - 1)) \in names
                 /\ name[1] # 95 => NameByPath(f) \in names

\* C11 as claimed: for every importable package name discover_modules returns a
\* duplicate-free set that holds the package name and otherwise only names made of
\* the package name, a dot and further components; an underscore file contributes
\* no name unless it is a package initializer.
C11_DiscoveredNamesOfPackage ==
    pc = "return" => DiscoveredAsClaimed

\* C11 amended: the same, for every importable top-level package name (a name
\* without a dot).
C11_DiscoveredNamesOfTopLevelPackage ==
    (pc = "return" /\ 46 \notin Range(args.package)) => DiscoveredAsClaimed

\* C11 witness: discovery of a top-level package that holds an underscore file, a
\* module and a subpackage with its initializer has returned four names
C11_Witness ==
    /\ pc = "return"
    /\ args.package = S_a
    /\ {<<S_a, S_c_py>>, <<S_a, S_s, S_init_py>>, <<S_a, S_init_py>>} \subseteq pyenv.pyfiles
    /\ Len(modules) = 4

---------------------------------------------------------------------------
(* generate_module_doc on its own: one module, drawn from a bounded        *)
(* universe, is imported, classified and written, and the index follows.   *)

\* attribute shapes that decide which sections the file has
DocAttrValues(name) ==
    {FunctionIn(name), ClassIn(name), ModuleNamed(name \o S_dot \o S_s), PlainValue,
     FunctionIn(S_os), Raising("Exception"), BuiltinMethod}

InitModuleDoc ==
    /\ \E name \in MemberModuleNames :
         /\ \/ \E dom \in SUBSET {AttrNames[i] : i \in 1..MaxAttrs} :
                 \E attrs \in [dom -> DocAttrValues(name)] :
                   pyenv = [package |-> name, hasPath |-> FALSE, pyfiles |-> {},
                            importOf |-> (name :> Imported([name |-> name, attrs |-> attrs]))]
            \/ \E e \in Exceptions :
                 pyenv = [package |-> name, hasPath |-> FALSE, pyfiles |-> {},
                          importOf |-> (name :> ImportFails(e))]
         /\ files \in {<<>>, (name \o S_rst) :> StaleLines}
    /\ args = [package |-> pyenv.package, clean |-> FALSE]
    /\ modules = <<pyenv.package>>
    /\ idx = 1
    /\ pc = "generate"
    /\ exitcode = NotExited
    /\ outExists = TRUE
    /\ generatedDir = FALSE
    /\ module = NoModule
    /\ members = NoMembers
    /\ log = <<>>
    /\ removed = {}
    /\ written = <<>>
    /\ prev = NoPrev

NextModuleDoc ==
    \/ main_generate
    \/ main_index

SpecModuleDoc == InitModuleDoc /\ [][NextModuleDoc]_vars

\* the members of one kind of the module just classified, in sorted order
Category(kind) == SortedSeqOf(Qualifying(kind))

IsHeading(l) == l \in {S_Functions, S_Classes, S_Submodules}

\* a line that lists a member: indented, and not an option of a directive
IsEntry(l) == Len(l) > 3 /\ SubSeq(l, 1, 3) = S_indent /\ l[4] # 58

IsAutosummary(l) == l = S_autosummary

\* the member names listed between a heading and the next heading (or the end)
SectionEntries(lines, heading) ==
    LET h == CHOOSE i \in 1..Len(lines) : lines[i] = heading
        later == {j \in (h + 1)..Len(lines) : IsHeading(lines[j])} \cup {Len(lines) + 1}
        stop == CHOOSE j \in later : \A k \in later : j <= k
        listed == SelectSeq(SubSeq(lines, h + 1, stop - 1), IsEntry)
    IN  [i \in 1..Len(listed) |-> SubSeq(listed[i], 4, Len(listed[i]))]

\* the headings a file must have for the module just classified
ExpectedHeadings ==
    (IF Category("function") # <<>> THEN <<S_Functions>> ELSE <<>>)
    \o (IF Category("class") # <<>> THEN <<S_Classes>> ELSE <<>>)
    \o (IF Category("module") # <<>> THEN <<S_Submodules>> ELSE <<>>)

\* C12: a per-module file written is, in order, the module name as title, an
\* underline of "=" of the title's length, the automodule directive of the module,
\* and then one section for each non-empty category in the order Functions,
\* Classes, Submodules, each listing every member of the category once, sorted; a
\* category without members has no heading and no directive.
C12_ModuleFileStructure ==
    Printed(log, "Generated") # <<>> =>
        LET name == module.name
            lines == files[name \o S_rst]
        IN  /\ Printed(log, "Generated") = <<name \o S_rst>>
            /\ Len(lines) >= 5
            /\ lines[1] = name
            /\ Len(lines[2]) = Len(lines[1])
            /\ \A i \in 1..Len(lines[2]) : lines[2][i] = 61
            /\ lines[3] = <<>>
            /\ lines[4] = S_automodule \o name
            /\ lines[5] = <<>>
            /\ SelectSeq(lines, IsHeading) = ExpectedHeadings
            /\ Len(SelectSeq(lines, IsAutosummary)) = Len(ExpectedHeadings)
            /\ Len(SelectSeq(lines, IsEntry)) =
                 Len(Category("function")) + Len(Category("class")) + Len(Category("module"))
            /\ S_Functions \in Range(lines) =>
                 SectionEntries(lines, S_Functions) = Category("function")
            /\ S_Classes \in Range(lines) =>
                 SectionEntries(lines, S_Classes) = Category("class")
            /\ S_Submodules \in Range(lines) =>
                 SectionEntries(lines, S_Submodules) = Category("module")

\* C12 witness: a file was written for a module with two classes and no
\* function, and the run has ended after writing the index
C12_Witness ==
    /\ Printed(log, "Generated") # <<>>
    /\ Category("function") = <<>>
    /\ Len(Category("class")) = 2
    /\ Len(files[module.name \o S_rst]) > 5
    /\ prev = NoPrev
    /\ exitcode = 0

---------------------------------------------------------------------------

\* the run is about to resolve the package, or has ended on the failure to import it
AtOrAbortedInDiscover ==
    \/ pc = "discover"
    \/ pc = "exit" /\ pyenv.importOf[pyenv.package].exc # "none"

\* C13: the cleanup (with --clean) and the creation of the output directory are
\* complete before the package is resolved: when the run reaches discover_modules,
\* and when it has ended on the failed import of the package, the output directory
\* exists, with --clean it holds no .rst file but index.rst and no generated
\* subdirectory, what the cleanup removed is still absent, and nothing was written.
C13_CleanupPrecedesResolution ==
    AtOrAbortedInDiscover =>
        /\ outExists
        /\ written = <<>>
        /\ removed \cap DOMAIN files = {}
        /\ args.clean =>
             /\ ~generatedDir
             /\ \A n \in DOMAIN files : endswith(n, S_rst) => n = S_index_rst
        /\ ~args.clean => removed = {}

\* C13 witness: a run with --clean has ended on the failed import of the package
\* after removing api.rst, old.rst and the generated subdirectory, which are gone
C13_Witness ==
    /\ pc = "exit"
    /\ exitcode = 1
    /\ pyenv.importOf[pyenv.package].exc # "none"
    /\ args.clean
    /\ removed = {S_api_rst, S_old_rst, <<"generated">>}
    /\ DOMAIN files = {S_index_rst, S_notes_txt}
    /\ ~generatedDir

====
